---- MODULE Spec2Model ----
(***************************************************************************)
(* The asynchronous activity-log pipeline of user_mgmt_go:                 *)
(* userLogRepository in internal/repository/interfaces.go.  Producers call *)
(* CreateAsync, one worker goroutine (startAsyncProcessor) drains the      *)
(* buffered channel logChannel into a local batch and writes batches with  *)
(* BulkCreate; Close signals the worker and waits for it.                  *)
(*                                                                         *)
(* The durable store is seen through the log of the write calls made on    *)
(* the collection (InsertOne, InsertMany), each with its outcome.          *)
(*                                                                         *)
(* Time is discrete.  One time unit is long compared with a worker step:   *)
(* a tick that is ready in ticker.C is taken by the worker before the next *)
(* time unit passes, and a store write takes no time.                      *)
(***************************************************************************)
EXTENDS Integers, Sequences, FiniteSets, TLC

\* Capacity of logChannel: make(chan *models.UserLog, 1000), scaled down.
QueueCap == 2

\* Size at which the worker flushes the batch: len(batch) >= 10, scaled down.
BatchSize == 3

\* Period of the worker's ticker: time.NewTicker(5 * time.Second), in time units.
TickPeriod == 2

\* Number of records the producers submit in one run.
MaxCalls == 2
MaxRecords == 5

\* The largest timestamp of a query's time range, in time units.
MaxTime == 3

\* List, SearchLogs: the largest page size that is accepted.
MaxPageSize == 100

\* List, SearchLogs: the page size used when the requested one is not accepted.
DefaultPageSize == 10

\* The limiter's burst: NewRateLimiter(rate, burst), scaled down.
Burst == 2

\* The limiter's rate interval: NewRateLimiter(rate, burst), in time units.
RateInterval == 3

\* Age of lastSeen past which the sweep deletes a visitor: time.Hour, in
\* time units.
IdleLimit == 2

\* Time between two sweeps: time.Sleep(time.Minute), in time units.
SweepPeriod == 2

VARIABLES
    queue,          \* buffer of logChannel, oldest record first
    chanClosed,     \* logChannel has been closed
    stopClosed,     \* stopChan has been closed
    batch,          \* the worker's local batch
    wpc,            \* the worker goroutine: "run" or "done"
    closePc,        \* the caller of Close: "idle", "waiting" (in wg.Wait) or "closed"
    writes,         \* every write call made on the collection, in order
    nextId,         \* the next record to be submitted (records are 1, 2, ...)
    ret,            \* what the latest CreateAsync gave its caller
    tickPending,    \* a tick is ready in ticker.C
    untilTick,      \* time units until the ticker fires next
    batchAge,       \* time units since the oldest record of the batch entered it
    queuedAtClose,  \* history: the records in logChannel when stopChan was closed
    \* The worker goroutines seen statement by statement (SpecWorkers)
    wkPc,           \* per started worker: "select", "flushSize", "flushTick",
                    \* "flushStop" (inside processBatch) or "done"
    wkBatch,        \* per started worker: its local batch
    \* The rate limiter (SpecLimiter), per client address
    present,        \* the address has a Visitor in rl.visitors
    tokens,         \* items in the visitor's limiter channel: slots consumed
    timers,         \* remaining sleep of each release goroutine, shortest first
    seenAge,        \* time units since the visitor's lastSeen
    lockHolder,     \* rl.mutex: "free", "sweeper", or the address whose Allow holds it
    sweepIn,        \* time units until cleanupVisitors wakes up
    held,           \* history: age of each consumed slot, oldest first
    callsNow,       \* history: Allow calls at the present instant
    admitsNow,      \* history: admitted Allow calls at the present instant
    startKind,      \* history: how the present instant's first call found the address
    bursted,        \* history: the visitor once had Burst admissions in one instant
    evicted,        \* history: "no", or how the latest eviction found the visitor
    recent,         \* history: age of each admission younger than the rate interval
    \* One request in the global handler chain (SpecChain)
    req,            \* the latest request: is it GET /health, its CORS case, its size
    pos,            \* index in Chain of the handler to run next; Aborted when over
    ran,            \* the handlers of Chain that have acted on the request
    status,         \* the HTTP status written for the request, 0 while none
    asked,          \* what Allow answered for the request: "no" while not called
    logged,         \* RequestLoggingMiddleware after its c.Next(): "no" (not
                    \* reached), "pending", "yes" (CreateAsync called) or
                    \* "skipped" (a panic passed through it)
    submits,        \* CreateAsync calls made for the request
    \* The queries on the log collection (SpecQuery)
    coll,           \* the documents in the collection
    qpc,            \* the query call: "idle", "counted" (after CountDocuments),
                    \* "cursor" (GetEventStats reading its cursor) or "returned"
    qop,            \* the latest call: its kind and its arguments as used
    qcur,           \* GetEventStats: the groups the cursor has still to give
    qres,           \* what the latest call returned, and what it saw
    \* Allow seen statement by statement, with several callers (SpecCallers)
    mutex,          \* rl.mutex: "free" or the caller that holds it
    visitors,       \* rl.visitors: per key the Visitor in the map, or NoVisitor
    limiterLen,     \* per Visitor: items in its limiter channel
    sleepers,       \* per Visitor: release goroutines started and not finished
    callerPc,       \* per caller: "idle", or the statement of Allow it is at:
                    \* "lock", "lookup", "create" or "select"
    callerVis,      \* per caller: its local variable visitor
    results,        \* per caller: what its calls of Allow returned, in order
    taken           \* history, per Visitor: items taken out of its channel

\* The log pipeline with the worker's select cases as single steps.
pipeVars == <<queue, chanClosed, stopClosed, batch, wpc, closePc, writes, nextId,
              ret, tickPending, untilTick, batchAge, queuedAtClose>>

\* The worker goroutines with processBatch as a step of its own.
fineVars == <<wkPc, wkBatch>>

\* The rate limiter.
limVars == <<present, tokens, timers, seenAge, lockHolder, sweepIn, held,
             callsNow, admitsNow, startKind, bursted, evicted, recent>>

\* The handler chain of the router.
webVars == <<req, pos, ran, status, asked, logged, submits>>

\* The queries.
qryVars == <<coll, qpc, qop, qcur, qres>>

\* Allow seen statement by statement, with several callers.
conVars == <<mutex, visitors, limiterLen, sleepers, callerPc, callerVis, results,
             taken>>

vars == <<pipeVars, fineVars, limVars, webVars, qryVars, conVars>>

Records == 1..MaxRecords

Range(s) == {s[i] : i \in 1..Len(s)}

\* The age counter stops counting one unit past the ticker period.
AgeCap == TickPeriod + 1

\* One write call on the collection: who made it, with which documents, and
\* whether the store accepted it.
Write(op, by, docs, ok) == [op |-> op, by |-> by, docs |-> docs, ok |-> ok]

\* The documents of the store: those of the accepted writes, in arrival order.
RECURSIVE StoreOf(_)
StoreOf(w) ==
    IF w = <<>> THEN <<>>
    ELSE LET last == w[Len(w)]
         IN  StoreOf(SubSeq(w, 1, Len(w) - 1)) \o (IF last.ok THEN last.docs ELSE <<>>)

Store == StoreOf(writes)

\* How many times record r occurs in sequence s.
Count(r, s) == Cardinality({i \in 1..Len(s) : s[i] = r})

\* Every document handed to the store, accepted or not.
Attempted == UNION {Range(writes[i].docs) : i \in 1..Len(writes)}

----------------------------------------------------------------------------
(* Store calls *)

\* Mutant of Create: the record is given up without a write.
Create_dropped(w, r, ok) == w

\* Create: InsertOne of one record; a failure comes back as an error.
Create(w, r, ok) == Append(w, Write("InsertOne", "fallback", <<r>>, ok))

\* Mutant of CreateResult: the error is swallowed.
CreateResult_swallowed(ok) == "nil"

\* What Create returns: nil, or the wrapped error.
CreateResult(ok) == IF ok THEN "nil" ELSE "err"

\* Mutant of BulkCreate: a refused InsertMany is tried once more.
BulkCreate_retry(w, by, logs, ok) ==
    IF Len(logs) = 0 THEN w
    ELSE IF ok THEN Append(w, Write("InsertMany", by, logs, TRUE))
    ELSE Append(Append(w, Write("InsertMany", by, logs, FALSE)),
                Write("InsertMany", by, logs, TRUE))

\* BulkCreate: nothing for an empty slice, else one InsertMany of the slice.
BulkCreate(w, by, logs, ok) ==
    IF Len(logs) = 0 THEN w ELSE Append(w, Write("InsertMany", by, logs, ok))

\* processBatch: BulkCreate; a failure is logged and nothing else happens.
processBatch(w, by, logs, ok) == BulkCreate(w, by, logs, ok)

----------------------------------------------------------------------------
(* Producers *)

\* Mutant of ChanFull: one record more than the capacity is let in.
ChanFull_offByOne(q) == Len(q) > QueueCap

\* The send case of CreateAsync's select is ready when the buffer has room.
ChanFull(q) == Len(q) >= QueueCap

\* CreateAsync(logEntry): a send on a closed channel panics; else a
\* non-blocking send; else (default case) a synchronous Create whose
\* result is returned.  The record's timestamp, filled in first when it is
\* zero, plays no part in where the record goes and is left out.
CreateAsync(ok) ==
    /\ nextId <= MaxRecords
    /\ nextId' = nextId + 1
    /\ IF chanClosed
         THEN /\ ret' = "panic"
              /\ UNCHANGED <<queue, writes>>
         ELSE IF ~ChanFull(queue)
           THEN /\ queue' = Append(queue, nextId)
                /\ ret' = "nil"
                /\ UNCHANGED writes
           ELSE /\ writes' = Create(writes, nextId, ok)
                /\ ret' = CreateResult(ok)
                /\ UNCHANGED queue
    /\ UNCHANGED <<chanClosed, stopClosed, batch, wpc, closePc, tickPending,
                   untilTick, batchAge, queuedAtClose>>
    /\ UNCHANGED <<fineVars, limVars, webVars, qryVars, conVars>>

----------------------------------------------------------------------------
(* The worker goroutine of startAsyncProcessor *)

\* Mutant of BatchFull: > for >=.
BatchFull_offByOne(b) == Len(b) > BatchSize

\* The size test after an append: len(batch) >= 10.
BatchFull(b) == Len(b) >= BatchSize

\* Mutant of HasLogs: only a full batch is flushed.
HasLogs_fullOnly(b) == Len(b) >= BatchSize

\* The test of the ticker case and of the stop case: len(batch) > 0.
HasLogs(b) == Len(b) > 0

\* Mutant of ResetBatch: the flushed records stay in the batch.
ResetBatch_kept(b) == b

\* batch = batch[:0] after a flush.
ResetBatch(b) == <<>>

\* Mutant of TickerInterval: the ticker fires one time unit late.
TickerInterval_late == TickPeriod + 1

\* time.NewTicker(5 * time.Second): the time between two ticks.
TickerInterval == TickPeriod

\* Mutant of AppendLog: the record is put in front of the batch.
AppendLog_front(b, e) == <<e>> \o b

\* batch = append(batch, logEntry)
AppendLog(b, e) == Append(b, e)

\* case logEntry := <-r.logChannel
WorkerRecv(ok) ==
    /\ wpc = "run"
    /\ queue # <<>>
    /\ queue' = Tail(queue)
    /\ LET b == AppendLog(batch, Head(queue))
       IN  IF BatchFull(b)
             THEN /\ writes' = processBatch(writes, "size", b, ok)
                  /\ batch' = ResetBatch(b)
                  /\ batchAge' = 0
             ELSE /\ batch' = b
                  /\ batchAge' = IF batch = <<>> THEN 0 ELSE batchAge
                  /\ UNCHANGED writes
    /\ UNCHANGED <<chanClosed, stopClosed, wpc, closePc, nextId, ret,
                   tickPending, untilTick, queuedAtClose>>
    /\ UNCHANGED <<fineVars, limVars, webVars, qryVars, conVars>>

\* case <-ticker.C
WorkerTick(ok) ==
    /\ wpc = "run"
    /\ tickPending
    /\ tickPending' = FALSE
    /\ IF HasLogs(batch)
         THEN /\ writes' = processBatch(writes, "tick", batch, ok)
              /\ batch' = ResetBatch(batch)
              /\ batchAge' = 0
         ELSE UNCHANGED <<writes, batch, batchAge>>
    /\ UNCHANGED <<queue, chanClosed, stopClosed, wpc, closePc, nextId, ret,
                   untilTick, queuedAtClose>>
    /\ UNCHANGED <<fineVars, limVars, webVars, qryVars, conVars>>

\* Mutant of StopReady: the stop case is taken only with an empty channel.
StopReady_whenDrained(sc, q) == sc /\ q = <<>>

\* case <-r.stopChan is ready once stopChan is closed, whatever logChannel
\* holds.
StopReady(sc, q) == sc

\* case <-r.stopChan: flush the batch if it holds anything and return.  The
\* batch is a local of the goroutine and goes with it.
WorkerStop(ok) ==
    /\ wpc = "run"
    /\ StopReady(stopClosed, queue)
    /\ writes' = IF HasLogs(batch) THEN processBatch(writes, "stop", batch, ok)
                                   ELSE writes
    /\ batch' = <<>>
    /\ batchAge' = 0
    /\ wpc' = "done"
    /\ UNCHANGED <<queue, chanClosed, stopClosed, closePc, nextId, ret,
                   tickPending, untilTick, queuedAtClose>>
    /\ UNCHANGED <<fineVars, limVars, webVars, qryVars, conVars>>

\* One time unit passes while the worker runs and no tick waits in ticker.C.
\* The ticker is free-running: it fires every TickPeriod units whatever the
\* batch holds.
TimePasses ==
    /\ wpc = "run"
    /\ ~tickPending
    /\ IF untilTick = 1
         THEN tickPending' = TRUE /\ untilTick' = TickerInterval
         ELSE tickPending' = FALSE /\ untilTick' = untilTick - 1
    /\ batchAge' = IF batch = <<>> THEN 0
                   ELSE IF batchAge < AgeCap THEN batchAge + 1 ELSE batchAge
    /\ UNCHANGED <<queue, chanClosed, stopClosed, batch, wpc, closePc, writes,
                   nextId, ret, queuedAtClose>>
    /\ UNCHANGED <<fineVars, limVars, webVars, qryVars, conVars>>

----------------------------------------------------------------------------
(* Close *)

\* Close, first statement: close(r.stopChan); then the caller is in wg.Wait.
\* RepositoryManager.Close calls it once.
CloseSignal ==
    /\ closePc = "idle"
    /\ stopClosed' = TRUE
    /\ closePc' = "waiting"
    /\ queuedAtClose' = Range(queue)
    /\ UNCHANGED <<queue, chanClosed, batch, wpc, writes, nextId, ret,
                   tickPending, untilTick, batchAge>>
    /\ UNCHANGED <<fineVars, limVars, webVars, qryVars, conVars>>

\* Mutant of WaitDone: Close does not wait for the worker.
WaitDone_noWait == TRUE

\* r.wg.Wait() returns once the worker goroutine has run its deferred wg.Done.
WaitDone == wpc = "done"

\* Close, after wg.Wait returns: close(r.logChannel).
CloseReturn ==
    /\ closePc = "waiting"
    /\ WaitDone
    /\ chanClosed' = TRUE
    /\ closePc' = "closed"
    /\ UNCHANGED <<queue, stopClosed, batch, wpc, writes, nextId, ret,
                   tickPending, untilTick, batchAge, queuedAtClose>>
    /\ UNCHANGED <<fineVars, limVars, webVars, qryVars, conVars>>

----------------------------------------------------------------------------
(* The worker goroutines statement by statement: a flush is in flight from *)
(* the call of processBatch until it returns.  A tick may be ready at any  *)
(* moment.                                                                 *)

\* Mutant of StartedWorkers: the constructor starts the processor twice.
StartedWorkers_two == {1, 2}

\* NewUserLogRepository calls startAsyncProcessor once, and startAsyncProcessor
\* starts one goroutine; nothing else calls it.
StartedWorkers == {1}

\* The worker is inside processBatch.
Flushing == {"flushSize", "flushTick", "flushStop"}

\* case logEntry := <-r.logChannel, up to the call of processBatch
WkRecv(w) ==
    /\ wkPc[w] = "select"
    /\ queue # <<>>
    /\ queue' = Tail(queue)
    /\ LET b == AppendLog(wkBatch[w], Head(queue))
       IN  /\ wkBatch' = [wkBatch EXCEPT ![w] = b]
           /\ wkPc' = [wkPc EXCEPT ![w] = IF BatchFull(b) THEN "flushSize" ELSE "select"]
    /\ UNCHANGED <<chanClosed, stopClosed, batch, wpc, closePc, writes, nextId,
                   ret, tickPending, untilTick, batchAge, queuedAtClose, limVars,
                   webVars, qryVars, conVars>>

\* case <-ticker.C with something in the batch, up to the call of processBatch
WkTick(w) ==
    /\ wkPc[w] = "select"
    /\ HasLogs(wkBatch[w])
    /\ wkPc' = [wkPc EXCEPT ![w] = "flushTick"]
    /\ UNCHANGED <<pipeVars, wkBatch, limVars, webVars, qryVars, conVars>>

\* case <-r.stopChan, up to the call of processBatch or to the return
WkStop(w) ==
    /\ wkPc[w] = "select"
    /\ stopClosed
    /\ wkPc' = [wkPc EXCEPT ![w] = IF HasLogs(wkBatch[w]) THEN "flushStop" ELSE "done"]
    /\ UNCHANGED <<pipeVars, wkBatch, limVars, webVars, qryVars, conVars>>

\* processBatch returns: the write has been made; after a size or tick
\* flush the batch is reset and the loop goes on, after the stop flush the
\* goroutine returns.
WkFlushEnd(w, ok) ==
    /\ wkPc[w] \in Flushing
    /\ writes' = processBatch(writes,
                              CASE wkPc[w] = "flushSize" -> "size"
                                [] wkPc[w] = "flushTick" -> "tick"
                                [] OTHER -> "stop",
                              wkBatch[w], ok)
    /\ IF wkPc[w] = "flushStop"
         THEN /\ wkPc' = [wkPc EXCEPT ![w] = "done"]
              /\ wkBatch' = [wkBatch EXCEPT ![w] = <<>>]
         ELSE /\ wkPc' = [wkPc EXCEPT ![w] = "select"]
              /\ wkBatch' = [wkBatch EXCEPT ![w] = ResetBatch(wkBatch[w])]
    /\ UNCHANGED <<queue, chanClosed, stopClosed, batch, wpc, closePc, nextId,
                   ret, tickPending, untilTick, batchAge, queuedAtClose, limVars,
                   webVars, qryVars, conVars>>

----------------------------------------------------------------------------
(* The rate limiter of internal/middleware/security.go.  Allow runs under  *)
(* rl.mutex from its first statement to its return; each admitted call     *)
(* starts a goroutine that sleeps for the rate interval and then takes one *)
(* item out of the visitor's channel; cleanupVisitors sleeps, takes the    *)
(* mutex and deletes the visitors not seen for longer than the idle limit. *)
(* A time unit passes only when the mutex is free and no sleeper is due.   *)

\* The client addresses that call.
Addrs == {"a1", "a2"}

\* The addresses that call Allow: one client.
OneClient == {"a1"}

Min(x, y) == IF x < y THEN x ELSE y

\* Mutant of SendReady: the channel takes one item more than its capacity.
SendReady_offByOne(tok) == tok <= Burst

\* case visitor.limiter <- struct{}{}: ready while the channel of capacity
\* burst has room.
SendReady(tok) == tok < Burst

\* Mutant of HasDefault: the select has no default case and waits for room.
HasDefault_none == FALSE

\* The select of Allow has a default case.
HasDefault == TRUE

\* Mutant of SleepTime: the release goroutine sleeps one time unit less.
SleepTime_short == RateInterval - 1

\* time.Sleep(rl.rate) of the release goroutine.
SleepTime == RateInterval

\* Mutant of AfterRelease: the goroutine ends without taking an item out.
AfterRelease_none(tok) == tok

\* <-visitor.limiter: one item leaves the channel.
AfterRelease(tok) == tok - 1

\* Mutant of Expired: the sweep lets a visitor live one time unit longer.
Expired_late(age) == age > IdleLimit + 1

\* time.Since(visitor.lastSeen) > time.Hour
Expired(age) == age > IdleLimit

\* Mutant of NewLimiter: the new visitor takes over what the address's
\* earlier visitor still held.
NewLimiter_reused(a) == tokens[a]

\* make(chan struct{}, rl.burst): the channel of a new Visitor is empty.
NewLimiter(a) == 0

\* Mutant of LastSeenAge: only an admitted call sets lastSeen.
LastSeenAge_admitted(admit, age) == IF admit THEN 0 ELSE age

\* visitor.lastSeen = time.Now(), ahead of the select: the age of lastSeen
\* after a call, whatever the call returns.
LastSeenAge(admit, age) == 0

\* The ages stop counting one unit past the largest value the sweep allows.
SeenCap == IdleLimit + SweepPeriod + 1

\* Allow, rl.mutex.Lock(): the caller for address a gets the mutex.  At most
\* Burst + 1 calls per address are followed within one instant.
MutexLock(a) ==
    /\ lockHolder = "free"
    /\ callsNow[a] <= Burst
    /\ lockHolder' = a
    /\ UNCHANGED <<present, tokens, timers, seenAge, sweepIn, held, callsNow,
                   admitsNow, startKind, bursted, evicted, recent>>
    /\ UNCHANGED <<pipeVars, fineVars, qryVars, conVars>>

\* Allow, from the map lookup to the return (the deferred Unlock): create
\* the visitor if the address has none, set lastSeen, then the select.
Allow(a) ==
    /\ lockHolder = a
    /\ LET exists == present[a]
           tok    == IF exists THEN tokens[a] ELSE NewLimiter(a)
           tm     == IF exists THEN timers[a] ELSE <<>>
           hd     == IF exists THEN held[a] ELSE <<>>
           admit  == SendReady(tok)
           kind   == IF callsNow[a] > 0 THEN startKind[a]
                     ELSE IF ~exists THEN "created"
                     ELSE IF bursted[a] /\ timers[a] = <<>> THEN "waited"
                     ELSE "other"
           adm    == admitsNow[a] + (IF admit THEN 1 ELSE 0)
       IN  /\ admit \/ HasDefault
           /\ present' = [present EXCEPT ![a] = TRUE]
           /\ seenAge' = [seenAge EXCEPT ![a] = LastSeenAge(admit, @)]
           /\ tokens' = [tokens EXCEPT ![a] = IF admit THEN tok + 1 ELSE tok]
           /\ timers' = [timers EXCEPT ![a] = IF admit THEN Append(tm, SleepTime) ELSE tm]
           /\ held' = [held EXCEPT ![a] = IF admit THEN Append(hd, 0) ELSE hd]
           /\ callsNow' = [callsNow EXCEPT ![a] = @ + 1]
           /\ admitsNow' = [admitsNow EXCEPT ![a] = adm]
           /\ startKind' = [startKind EXCEPT ![a] = kind]
           /\ bursted' = [bursted EXCEPT ![a] = (exists /\ @) \/ adm >= Burst]
           /\ recent' = [recent EXCEPT ![a] = IF admit THEN Append(@, 0) ELSE @]
    /\ lockHolder' = "free"
    /\ UNCHANGED <<sweepIn, evicted>>
    /\ UNCHANGED <<pipeVars, fineVars, qryVars, conVars>>

\* A caller of Allow(a) outside the handler chain takes the mutex.
AllowLock(a) == MutexLock(a) /\ UNCHANGED webVars

\* A caller of Allow(a) outside the handler chain runs it to its return.
AllowBody(a) == Allow(a) /\ UNCHANGED webVars

\* A release goroutine whose sleep is over takes one item out of the channel
\* of the visitor it was started for (it waits if the channel is empty).  It
\* does not take the mutex.
Release(a) ==
    /\ timers[a] # <<>>
    /\ Head(timers[a]) = 0
    /\ tokens[a] > 0
    /\ tokens' = [tokens EXCEPT ![a] = AfterRelease(@)]
    /\ timers' = [timers EXCEPT ![a] = Tail(@)]
    /\ held' = [held EXCEPT ![a] = Tail(@)]
    /\ UNCHANGED <<present, seenAge, lockHolder, sweepIn, callsNow, admitsNow,
                   startKind, bursted, evicted, recent>>
    /\ UNCHANGED <<pipeVars, fineVars, webVars, qryVars, conVars>>

\* cleanupVisitors wakes up and takes the mutex.
SweepLock ==
    /\ sweepIn = 0
    /\ lockHolder = "free"
    /\ lockHolder' = "sweeper"
    /\ UNCHANGED <<present, tokens, timers, seenAge, sweepIn, held, callsNow,
                   admitsNow, startKind, bursted, evicted, recent>>
    /\ UNCHANGED <<pipeVars, fineVars, webVars, qryVars, conVars>>

\* cleanupVisitors, the loop over the map and the Unlock; then it sleeps
\* again.  A deleted visitor stays with the release goroutines that were
\* started for it.
SweepBody ==
    /\ lockHolder = "sweeper"
    /\ present' = [a \in Addrs |-> present[a] /\ ~Expired(seenAge[a])]
    /\ evicted' = [a \in Addrs |->
                     IF present[a] /\ Expired(seenAge[a])
                       THEN (IF tokens[a] > 0 THEN "used" ELSE "full")
                       ELSE evicted[a]]
    /\ bursted' = [a \in Addrs |-> bursted[a] /\ present'[a]]
    /\ sweepIn' = SweepPeriod
    /\ lockHolder' = "free"
    /\ UNCHANGED <<tokens, timers, seenAge, held, callsNow, admitsNow, startKind,
                   recent>>
    /\ UNCHANGED <<pipeVars, fineVars, webVars, qryVars, conVars>>

\* The remaining sleeps after one time unit.
Sooner(t) == IF t = <<>> THEN <<>> ELSE [i \in 1..Len(t) |-> t[i] - 1]

\* The ages of the consumed slots after one time unit; they stop counting
\* at the rate interval.
Older(h) == IF h = <<>> THEN <<>> ELSE [i \in 1..Len(h) |-> Min(h[i] + 1, RateInterval)]

\* An admission of this age lies within a window shorter than the rate
\* interval that ends now.
InWindow(age) == age < RateInterval

\* The admissions of the window after one time unit, oldest first.
StillRecent(s) ==
    IF s = <<>> THEN <<>>
    ELSE SelectSeq([i \in 1..Len(s) |-> s[i] + 1], InWindow)

\* No release goroutine's sleep is over.
NoneDue == \A a \in Addrs : IF timers[a] = <<>> THEN TRUE ELSE Head(timers[a]) > 0

\* One time unit passes for the limiter.
LimTime ==
    /\ lockHolder = "free"
    /\ sweepIn > 0
    /\ NoneDue
    /\ sweepIn' = sweepIn - 1
    /\ timers' = [a \in Addrs |-> Sooner(timers[a])]
    /\ held' = [a \in Addrs |-> Older(held[a])]
    /\ seenAge' = [a \in Addrs |->
                     IF present[a] THEN Min(seenAge[a] + 1, SeenCap) ELSE seenAge[a]]
    /\ callsNow' = [a \in Addrs |-> 0]
    /\ admitsNow' = [a \in Addrs |-> 0]
    /\ startKind' = [a \in Addrs |-> "none"]
    /\ recent' = [a \in Addrs |-> StillRecent(recent[a])]
    /\ UNCHANGED <<present, tokens, lockHolder, bursted, evicted>>
    /\ UNCHANGED <<pipeVars, fineVars, webVars, qryVars, conVars>>

\* ---- Allow, statement by statement ----

\* The goroutines that call Allow, and the address each one calls it with:
\* two requests of one client and one of another.
Callers == {"c1", "c2", "c3"}
CallerIP(c) == IF c = "c3" THEN "a2" ELSE "a1"

\* The Visitor objects: the one caller c makes in its k-th call is <<c, k>>.
VisitorIds == Callers \X (1..MaxCalls)
NoVisitor == <<"none", 0>>

\* Mutant of VisitorKey: every address uses the same entry of the map.
VisitorKey_shared(ip) == "a1"

\* rl.visitors[ip]: the map is keyed by the address.
VisitorKey(ip) == ip

\* Mutant of LockFree: Lock returns although another caller holds the mutex.
LockFree_always(m) == TRUE

\* rl.mutex.Lock() returns when nobody holds the mutex.
LockFree(m) == m = "free"

\* The calls of the callers of address a that returned true.
RECURSIVE Trues(_)
Trues(r) == IF r = <<>> THEN 0 ELSE (IF Head(r) THEN 1 ELSE 0) + Trues(Tail(r))
Admitted(a) ==
    LET cs == {c \in Callers : CallerIP(c) = a}
        n[S \in SUBSET cs] ==
            IF S = {} THEN 0
            ELSE LET c == CHOOSE x \in S : TRUE
                 IN  Trues(results[c]) + n[S \ {c}]
    IN  n[cs]

conRest == <<pipeVars, fineVars, limVars, webVars, qryVars>>

\* Caller c calls Allow; each caller makes at most MaxCalls calls.
CallEnter(c) ==
    /\ callerPc[c] = "idle"
    /\ Len(results[c]) < MaxCalls
    /\ callerPc' = [callerPc EXCEPT ![c] = "lock"]
    /\ UNCHANGED <<mutex, visitors, limiterLen, sleepers, callerVis, results, taken>>
    /\ UNCHANGED conRest

\* rl.mutex.Lock() returns for caller c.
CallLock(c) ==
    /\ callerPc[c] = "lock"
    /\ LockFree(mutex)
    /\ mutex' = c
    /\ callerPc' = [callerPc EXCEPT ![c] = "lookup"]
    /\ UNCHANGED <<visitors, limiterLen, sleepers, callerVis, results, taken>>
    /\ UNCHANGED conRest

\* visitor, exists := rl.visitors[ip]
CallLookup(c) ==
    /\ callerPc[c] = "lookup"
    /\ callerVis' = [callerVis EXCEPT ![c] = visitors[VisitorKey(CallerIP(c))]]
    /\ callerPc' = [callerPc EXCEPT ![c] =
                      IF visitors[VisitorKey(CallerIP(c))] = NoVisitor
                        THEN "create" ELSE "select"]
    /\ UNCHANGED <<mutex, visitors, limiterLen, sleepers, results, taken>>
    /\ UNCHANGED conRest

\* if !exists: a new Visitor with an empty channel is put into the map.
CallCreate(c) ==
    /\ callerPc[c] = "create"
    /\ LET v == <<c, Len(results[c]) + 1>>
       IN  /\ callerVis' = [callerVis EXCEPT ![c] = v]
           /\ visitors' = [visitors EXCEPT ![VisitorKey(CallerIP(c))] = v]
    /\ callerPc' = [callerPc EXCEPT ![c] = "select"]
    /\ UNCHANGED <<mutex, limiterLen, sleepers, results, taken>>
    /\ UNCHANGED conRest

\* The select on visitor.limiter, the start of the release goroutine, the
\* return and the deferred Unlock.
CallSelect(c) ==
    /\ callerPc[c] = "select"
    /\ LET v == callerVis[c]
           admit == SendReady(limiterLen[v])
       IN  /\ limiterLen' = [limiterLen EXCEPT ![v] = IF admit THEN @ + 1 ELSE @]
           /\ sleepers' = [sleepers EXCEPT ![v] = IF admit THEN @ + 1 ELSE @]
           /\ results' = [results EXCEPT ![c] = Append(@, admit)]
    /\ callerPc' = [callerPc EXCEPT ![c] = "idle"]
    /\ mutex' = "free"
    /\ UNCHANGED <<visitors, callerVis, taken>>
    /\ UNCHANGED conRest

\* A release goroutine of Visitor v takes an item out of the channel, some
\* time after it was started; it does not take the mutex.
CallRelease(v) ==
    /\ sleepers[v] > 0
    /\ limiterLen[v] > 0
    /\ limiterLen' = [limiterLen EXCEPT ![v] = AfterRelease(@)]
    /\ sleepers' = [sleepers EXCEPT ![v] = @ - 1]
    /\ taken' = [taken EXCEPT ![v] = @ + 1]
    /\ UNCHANGED <<mutex, visitors, callerPc, callerVis, results>>
    /\ UNCHANGED conRest

----------------------------------------------------------------------------
(* Specifications *)

\* ---- The global handler chain ----

\* Mutant of Chain: the rate limiter is installed after the size limit.
Chain_limitLater ==
    <<"HealthCheck", "SecurityHeaders", "CORS", "RequestSizeLimit",
      "RateLimit", "Timeout", "Recovery", "RequestLogging", "Route">>

\* SetupGlobalMiddleware: the handlers in the order of the router.Use calls,
\* followed by the handler of the matched route.
Chain ==
    <<"HealthCheck", "SecurityHeaders", "CORS", "RateLimit",
      "RequestSizeLimit", "Timeout", "Recovery", "RequestLogging", "Route">>

\* The index at which no handler is left to run: where c.Abort() puts the
\* request, and where the chain ends by itself.
ChainEnd == Len(Chain) + 1

\* Mutant of OnReject: the limiter answers 429 without c.Abort().
OnReject_noAbort(p) == p + 1

\* c.Abort() of RateLimitMiddleware.
OnReject(p) == ChainEnd

\* The handler that runs next is h.
At(h) == IF pos < ChainEnd THEN Chain[pos] = h ELSE FALSE

\* The requests: GET /health or another route; without an Origin header
\* ("plain"), a preflight from an allowed origin, or a request from an
\* origin that is not allowed ("foreign"); a body over the size limit or not.
Requests == [health : BOOLEAN, cors : {"plain", "preflight", "foreign"},
             large : BOOLEAN]

\* c.ClientIP() of the request.
ClientIP == CHOOSE a \in OneClient : TRUE

\* The router takes the next request once the chain of the latest is over
\* and every handler has returned.
Arrive(r) ==
    /\ pos = ChainEnd
    /\ logged # "pending"
    /\ req' = r
    /\ pos' = 1
    /\ ran' = {}
    /\ status' = 0
    /\ asked' = "no"
    /\ logged' = "no"
    /\ submits' = 0
    /\ UNCHANGED <<pipeVars, fineVars, limVars, qryVars, conVars>>

\* HealthCheckMiddleware: GET /health is answered here, with 200 or 503 by
\* the databases' health, and aborted; any other request goes on.
HealthCheck(code) ==
    /\ At("HealthCheck")
    /\ ran' = ran \cup {"HealthCheck"}
    /\ IF req.health
       THEN status' = code /\ pos' = ChainEnd
       ELSE status' = status /\ pos' = pos + 1
    /\ UNCHANGED <<req, asked, logged, submits>>
    /\ UNCHANGED <<pipeVars, fineVars, limVars, qryVars, conVars>>

\* The handlers that do their work and call c.Next() for every request.
PassThrough == {"SecurityHeaders", "Timeout", "Recovery", "RequestLogging"}

\* SecurityHeadersMiddleware, TimeoutMiddleware (the request ends within the
\* timeout), RecoveryMiddleware (no panic), RequestLoggingMiddleware up to
\* its c.Next().
Through(h) ==
    /\ h \in PassThrough
    /\ At(h)
    /\ ran' = ran \cup {h}
    /\ pos' = pos + 1
    /\ logged' = (IF h = "RequestLogging" THEN "pending" ELSE logged)
    /\ UNCHANGED <<req, status, asked, submits>>
    /\ UNCHANGED <<pipeVars, fineVars, limVars, qryVars, conVars>>

\* CORSMiddleware (cors.New): a preflight is answered 204 and aborted, a
\* request from an origin that is not allowed is answered 403 and aborted,
\* any other request goes on.
CORS ==
    /\ At("CORS")
    /\ ran' = ran \cup {"CORS"}
    /\ IF req.cors = "plain"
       THEN status' = status /\ pos' = pos + 1
       ELSE /\ status' = (IF req.cors = "preflight" THEN 204 ELSE 403)
            /\ pos' = ChainEnd
    /\ UNCHANGED <<req, asked, logged, submits>>
    /\ UNCHANGED <<pipeVars, fineVars, limVars, qryVars, conVars>>

\* RateLimitMiddleware, entering rateLimiter.Allow(ip): rl.mutex.Lock().
RateLimitEnter ==
    /\ At("RateLimit")
    /\ MutexLock(ClientIP)
    /\ UNCHANGED webVars

\* RateLimitMiddleware from Allow's body on: false gives 429 and c.Abort(),
\* true gives c.Next().
RateLimit ==
    /\ At("RateLimit")
    /\ Allow(ClientIP)
    /\ LET ok == admitsNow'[ClientIP] > admitsNow[ClientIP]
       IN  /\ asked' = (IF ok THEN "true" ELSE "false")
           /\ status' = (IF ok THEN status ELSE 429)
           /\ pos' = (IF ok THEN pos + 1 ELSE OnReject(pos))
    /\ ran' = ran \cup {"RateLimit"}
    /\ UNCHANGED <<req, logged, submits>>

\* RequestSizeLimitMiddleware: a body over the limit is answered 413 and
\* aborted.
RequestSizeLimit ==
    /\ At("RequestSizeLimit")
    /\ ran' = ran \cup {"RequestSizeLimit"}
    /\ IF req.large
       THEN status' = 413 /\ pos' = ChainEnd
       ELSE status' = status /\ pos' = pos + 1
    /\ UNCHANGED <<req, asked, logged, submits>>
    /\ UNCHANGED <<pipeVars, fineVars, limVars, qryVars, conVars>>

\* The handler of the route: it writes its response ("ok"); it also
\* submits an activity log of its own, as the user handlers do ("logs"); or
\* it panics ("panic"): the panic passes through RequestLoggingMiddleware,
\* whose code after c.Next() does not run, and RecoveryMiddleware's
\* function submits a PANIC_RECOVERY log and answers 500.
Route(outcome) ==
    /\ At("Route")
    /\ ran' = ran \cup {"Route"}
    /\ status' = (IF outcome = "panic" THEN 500 ELSE 200)
    /\ pos' = (IF outcome = "panic" THEN ChainEnd ELSE pos + 1)
    /\ logged' = (IF outcome = "panic" /\ logged = "pending" THEN "skipped" ELSE logged)
    /\ submits' = (IF outcome = "ok" THEN submits ELSE submits + 1)
    /\ UNCHANGED <<req, asked>>
    /\ UNCHANGED <<pipeVars, fineVars, limVars, qryVars, conVars>>

\* RequestLoggingMiddleware after c.Next() has returned: the log entry of
\* the request is given to CreateAsync.
LogRequest ==
    /\ pos = ChainEnd
    /\ logged = "pending"
    /\ logged' = "yes"
    /\ submits' = submits + 1
    /\ UNCHANGED <<req, pos, ran, status, asked>>
    /\ UNCHANGED <<pipeVars, fineVars, limVars, qryVars, conVars>>


\* ---- The log queries ----

\* The actors.
Users == {"u1", "u2"}

\* NewUserLog: the actor's id is stored as the text of the UUID, a BSON
\* string (UserLog.UserID is a *string).
UserIDString(u) == [bson |-> "string", uuid |-> u]

\* Mutant of UserIDValue: the query gives the actor's id as its text.
UserIDValue_text(u) == UserIDString(u)

\* A uuid.UUID given as a value of a query document: the 16-byte array is
\* written as BSON binary.
UserIDValue(u) == [bson |-> "binary", uuid |-> u]

\* A document without user_id (omitempty on a nil pointer).
NoUser == [bson |-> "absent", uuid |-> "-"]

\* The event kinds, as texts.
Events == {<<"A">>, <<"B">>}

\* The documents that can be in the collection.  Texts are sequences of
\* characters; an empty text stands for an empty or omitted field.
DocPool ==
    { [id |-> 1, user |-> UserIDString("u1"), event |-> <<"A">>,
       action |-> <<"a", "b">>, error |-> <<>>, ip |-> <<"c">>, ts |-> 1],
      [id |-> 2, user |-> UserIDString("u1"), event |-> <<"B">>,
       action |-> <<"b">>, error |-> <<"a">>, ip |-> <<>>, ts |-> 2],
      [id |-> 3, user |-> NoUser, event |-> <<"B">>,
       action |-> <<>>, error |-> <<>>, ip |-> <<"c">>, ts |-> 2],
      [id |-> 4, user |-> UserIDString("u2"), event |-> <<"A">>,
       action |-> <<"B">>, error |-> <<>>, ip |-> <<"b", "c">>, ts |-> 3] }

\* Lower case of a character: "$options": "i".
Fold(c) == IF c = "A" THEN "a" ELSE IF c = "B" THEN "b" ELSE c

\* The regular expression pat matches text str from position i + 1 on; "."
\* stands for any character.
MatchesAt(pat, str, i) ==
    \A j \in 1..Len(pat) : pat[j] = "." \/ Fold(pat[j]) = Fold(str[i + j])

\* {"$regex": pat, "$options": "i"} on a field holding str: the pattern
\* matches somewhere in the text.  An omitted field matches no pattern.
Regex(pat, str) ==
    IF Len(pat) > Len(str) THEN FALSE
    ELSE \E i \in 0..(Len(str) - Len(pat)) : str # <<>> /\ MatchesAt(pat, str, i)

\* Text sub is a substring of text str, case ignored.
Substring(sub, str) ==
    IF Len(sub) > Len(str) THEN FALSE
    ELSE \E i \in 0..(Len(str) - Len(sub)) :
            \A j \in 1..Len(sub) : Fold(sub[j]) = Fold(str[i + j])

\* The patterns and search terms that are tried.
Patterns == {<<>>, <<"a">>, <<"B">>, <<"c">>, <<".">>, <<"a", "b">>}

\* A nil pointer of a LogFilterRequest or of GetEventStats.
Nil == "nil"

\* The time points; 0 stands for a nil *time.Time.
Times == 1..MaxTime
NoTime == 0

\* The values of models.LogFilterRequest without Page and PageSize.
Filters ==
    [user : {"u1", Nil}, event : {<<"A">>, <<>>},
     ip : {<<>>, <<"c">>}, action : {<<>>, <<"b">>, <<".">>},
     start : Times \cup {NoTime}, end : Times \cup {NoTime}]

\* The documents of D with the latest timestamp.
Latest(D) == {d \in D : \A e \in D : d.ts >= e.ts}

\* Mutant of TimeHolds: the upper bound of the range is exclusive.
TimeHolds_exclusive(gte, lte, ts) ==
    /\ gte # NoTime => ts >= gte
    /\ lte # NoTime => ts < lte

\* {"timestamp": {"$gte": start, "$lte": end}} with the bounds that are set.
TimeHolds(gte, lte, ts) ==
    /\ gte # NoTime => ts >= gte
    /\ lte # NoTime => ts <= lte

\* buildLogFilter: the query document, as the set of its keys and their
\* values.
buildLogFilter(f) ==
    [keys |-> {k \in {"user_id", "event", "ip_address", "data.action", "timestamp"} :
                 \/ k = "user_id" /\ f.user # Nil
                 \/ k = "event" /\ f.event # <<>>
                 \/ k = "ip_address" /\ f.ip # <<>>
                 \/ k = "data.action" /\ f.action # <<>>
                 \/ k = "timestamp" /\ (f.start # NoTime \/ f.end # NoTime)},
     user_id |-> UserIDValue(f.user),
     event |-> f.event,
     ip_address |-> f.ip,
     action |-> f.action,
     gte |-> f.start,
     lte |-> f.end]

\* The collection's reading of a query document m on document d: every key
\* of m holds; a value is equal to a field when type and content are equal.
Holds(m, d) ==
    /\ "user_id" \in m.keys => d.user = m.user_id
    /\ "event" \in m.keys => d.event = m.event
    /\ "ip_address" \in m.keys => Regex(m.ip_address, d.ip)
    /\ "data.action" \in m.keys => Regex(m.action, d.action)
    /\ "timestamp" \in m.keys => TimeHolds(m.gte, m.lte, d.ts)

\* Mutant of SearchFields: the search looks at event, action and error only.
SearchFields_three(d) == {d.event, d.action, d.error}

\* SearchLogs, the fields of the "$or": event, data.action, data.error and
\* ip_address.
SearchFields(d) == {d.event, d.action, d.error, d.ip}

\* SearchLogs, searchFilter: the term matches one of the fields.
SearchHolds(term, d) == \E str \in SearchFields(d) : Regex(term, str)

\* The documents of the collection that the query of call op selects.
Matching(op) ==
    {d \in coll :
        /\ Holds(buildLogFilter(op.filter), d)
        /\ op.kind = "SearchLogs" => SearchHolds(op.term, d)}

\* Mutant of UsedPageSize: a page size over the maximum is cut to it.
UsedPageSize_cut(sz) ==
    IF sz <= 0 THEN DefaultPageSize
    ELSE IF sz > MaxPageSize THEN MaxPageSize + 1 ELSE sz

\* List, SearchLogs: the defaults.
UsedPage(pg) == IF pg <= 0 THEN 1 ELSE pg
UsedPageSize(sz) == IF sz <= 0 \/ sz > MaxPageSize THEN DefaultPageSize ELSE sz

\* CalculateTotalPages
CalculateTotalPages(total, pageSize) ==
    IF pageSize <= 0 THEN 0 ELSE (total + pageSize - 1) \div pageSize

\* SetSort({timestamp: -1}): the orders in which the collection can give
\* the documents of D, latest first; documents of one timestamp come in
\* any order.
RECURSIVE Orders(_)
Orders(D) ==
    IF D = {} THEN {<<>>}
    ELSE UNION {{<<d>> \o o : o \in Orders(D \ {d})} : d \in Latest(D)}

\* SetSkip(skip), SetLimit(limit) on the ordered documents; the ids of the
\* documents read.
Slice(o, skip, limit) ==
    IF skip >= Len(o) THEN <<>>
    ELSE [j \in 1..Min(limit, Len(o) - skip) |-> o[skip + j].id]

\* What a call has returned while nothing has been returned yet.  matched
\* keeps the ids of the documents that the query selected when Find ran.
NoResult ==
    [err |-> "pending", failed |-> FALSE, logs |-> <<>>, total |-> 0, page |-> 0,
     pageSize |-> 0, totalPages |-> 0, matched |-> {}, stats |-> {}]

\* A batch flush or a fallback write puts a document into the collection.
\* The collection is followed until the call in progress has returned.
Insert(d) ==
    /\ d \notin coll
    /\ qpc # "returned"
    /\ coll' = coll \cup {d}
    /\ UNCHANGED <<qpc, qop, qcur, qres>>
    /\ UNCHANGED <<pipeVars, fineVars, limVars, webVars, conVars>>

\* List and SearchLogs up to CountDocuments: the defaults, the query
\* document, the count.  A failed count is returned as an error.
StartPaged(kind, term, f, pg, sz, ok) ==
    /\ qpc = "idle"
    /\ LET op == [kind |-> kind, term |-> term, filter |-> f,
                  reqPage |-> pg, reqPageSize |-> sz,
                  page |-> UsedPage(pg), pageSize |-> UsedPageSize(sz),
                  user |-> Nil, days |-> 0]
       IN  /\ qop' = op
           /\ qpc' = IF ok THEN "counted" ELSE "returned"
           /\ qres' = IF ok
                        THEN [NoResult EXCEPT !.total = Cardinality(Matching(op))]
                        ELSE [NoResult EXCEPT !.err = "count", !.failed = TRUE]
    /\ UNCHANGED <<coll, qcur>>
    /\ UNCHANGED <<pipeVars, fineVars, limVars, webVars, conVars>>

\* List(ctx, filter)
List(f, pg, sz, ok) == StartPaged("List", <<>>, f, pg, sz, ok)

\* SearchLogs(ctx, searchTerm, filter)
SearchLogs(term, f, pg, sz, ok) == StartPaged("SearchLogs", term, f, pg, sz, ok)

\* Mutant of ReturnedTotal: the total is the number of documents that the
\* page read selects.
ReturnedTotal_found(counted, found) == found

\* List, SearchLogs: Total of the response is the result of CountDocuments.
ReturnedTotal(counted, found) == counted

\* List and SearchLogs from Find to the return: the page is read with the
\* same query document; a failed Find and a failed cursor.All are returned
\* as errors.
FindPage(outcome) ==
    /\ qpc = "counted"
    /\ qpc' = "returned"
    /\ IF outcome = "ok"
       THEN \E o \in Orders(Matching(qop)) :
              qres' = [qres EXCEPT
                         !.err = "none",
                         !.logs = Slice(o, (qop.page - 1) * qop.pageSize, qop.pageSize),
                         !.page = qop.page,
                         !.pageSize = qop.pageSize,
                         !.total = ReturnedTotal(qres.total, Cardinality(Matching(qop))),
                         !.totalPages =
                             CalculateTotalPages(
                                 ReturnedTotal(qres.total, Cardinality(Matching(qop))),
                                 qop.pageSize),
                         !.matched = {d.id : d \in Matching(qop)}]
       ELSE qres' = [NoResult EXCEPT !.err = outcome, !.failed = TRUE]
    /\ UNCHANGED <<coll, qop, qcur>>
    /\ UNCHANGED <<pipeVars, fineVars, limVars, webVars, conVars>>

\* The call before any call.  reqPage and reqPageSize are the Page and
\* PageSize of the request, page and pageSize the values after the defaults.
NoCall ==
    [kind |-> "none", term |-> <<>>,
     filter |-> [user |-> Nil, event |-> <<>>, ip |-> <<>>, action |-> <<>>,
                 start |-> NoTime, end |-> NoTime],
     reqPage |-> 0, reqPageSize |-> 0,
     page |-> 0, pageSize |-> 0, user |-> Nil, days |-> 0]

\* time.Now() of GetEventStats, in time units.
Now == MaxTime

\* Mutant of InWindowSince: the window starts one day earlier.
InWindowSince_wider(days, ts) == ts >= Now - days - 1

\* GetEventStats, matchStage: {"timestamp": {"$gte": now - days}}.
InWindowSince(days, ts) == ts >= Now - days

\* GetEventStats, the "$match" stage: the documents of the window, and of
\* the actor when one is given.
StatsMatch(user, days) ==
    {d \in coll :
        /\ InWindowSince(days, d.ts)
        /\ user # Nil => d.user = UserIDValue(user)}

\* GetEventStats, the "$group" stage: one group per event kind that occurs
\* among the matched documents, with the number of its documents.
Groups(D) ==
    {<<e, Cardinality({d \in D : d.event = e})>> : e \in {d.event : d \in D}}

\* The orders in which a cursor can give the elements of G.
CursorOrders(G) ==
    IF G = {} THEN {<<>>} ELSE
    {o \in [1..Cardinality(G) -> G] :
        \A j, k \in 1..Cardinality(G) : j # k => o[j] # o[k]}

\* GetEventStats up to Aggregate; a failed Aggregate is returned as an error.
GetEventStats(user, days, ok) ==
    /\ qpc = "idle"
    /\ qop' = [NoCall EXCEPT !.kind = "GetEventStats", !.user = user, !.days = days]
    /\ IF ok
       THEN /\ qpc' = "cursor"
            /\ qres' = NoResult
            /\ \E o \in CursorOrders(Groups(StatsMatch(user, days))) : qcur' = o
       ELSE /\ qpc' = "returned"
            /\ qres' = [NoResult EXCEPT !.err = "aggregate", !.failed = TRUE]
            /\ qcur' = <<>>
    /\ UNCHANGED coll
    /\ UNCHANGED <<pipeVars, fineVars, limVars, webVars, conVars>>

\* GetEventStats, one round of "for cursor.Next(ctx)": the group is decoded
\* and put into the map ("ok"); Decode fails and the loop continues
\* ("decode"); or cursor.Next gives false because the cursor failed
\* ("next"), which ends the loop like the end of the results does.
StatsNext(outcome) ==
    /\ qpc = "cursor"
    /\ qcur # <<>>
    /\ IF outcome = "ok"
       THEN /\ qres' = [qres EXCEPT !.stats = @ \cup {Head(qcur)}]
            /\ qcur' = Tail(qcur)
            /\ qpc' = qpc
       ELSE IF outcome = "decode"
       THEN /\ qres' = [qres EXCEPT !.failed = TRUE]
            /\ qcur' = Tail(qcur)
            /\ qpc' = qpc
       ELSE /\ qres' = [qres EXCEPT !.failed = TRUE, !.err = "none"]
            /\ qcur' = <<>>
            /\ qpc' = "returned"
    /\ UNCHANGED <<coll, qop>>
    /\ UNCHANGED <<pipeVars, fineVars, limVars, webVars, conVars>>

\* GetEventStats, the end of the results: return stats, nil.
StatsReturn ==
    /\ qpc = "cursor"
    /\ qcur = <<>>
    /\ qpc' = "returned"
    /\ qres' = [qres EXCEPT !.err = "none"]
    /\ UNCHANGED <<coll, qop, qcur>>
    /\ UNCHANGED <<pipeVars, fineVars, limVars, webVars, conVars>>

\* The caller has taken the result; the next call can be made.
Taken ==
    /\ qpc = "returned"
    /\ qpc' = "idle"
    /\ qop' = NoCall
    /\ qres' = NoResult
    /\ UNCHANGED <<coll, qcur>>
    /\ UNCHANGED <<pipeVars, fineVars, limVars, webVars, conVars>>

\* NewUserLogRepository: empty channels, the worker started with an empty
\* batch and a fresh ticker.
Init ==
    /\ queue = <<>>
    /\ chanClosed = FALSE
    /\ stopClosed = FALSE
    /\ batch = <<>>
    /\ wpc = "run"
    /\ closePc = "idle"
    /\ writes = <<>>
    /\ nextId = 1
    /\ ret = "none"
    /\ tickPending = FALSE
    /\ untilTick = TickerInterval
    /\ batchAge = 0
    /\ queuedAtClose = {}
    /\ wkPc = [w \in StartedWorkers |-> "select"]
    /\ wkBatch = [w \in StartedWorkers |-> <<>>]
    /\ present = [a \in Addrs |-> FALSE]
    /\ tokens = [a \in Addrs |-> 0]
    /\ timers = [a \in Addrs |-> <<>>]
    /\ seenAge = [a \in Addrs |-> 0]
    /\ lockHolder = "free"
    /\ sweepIn = SweepPeriod
    /\ held = [a \in Addrs |-> <<>>]
    /\ callsNow = [a \in Addrs |-> 0]
    /\ admitsNow = [a \in Addrs |-> 0]
    /\ startKind = [a \in Addrs |-> "none"]
    /\ bursted = [a \in Addrs |-> FALSE]
    /\ evicted = [a \in Addrs |-> "no"]
    /\ recent = [a \in Addrs |-> <<>>]
    /\ req = [health |-> FALSE, cors |-> "plain", large |-> FALSE]
    /\ pos = ChainEnd
    /\ ran = {}
    /\ status = 0
    /\ asked = "no"
    /\ logged = "no"
    /\ submits = 0
    /\ coll = {}
    /\ qpc = "idle"
    /\ qop = NoCall
    /\ qcur = <<>>
    /\ qres = NoResult
    /\ mutex = "free"
    /\ visitors = [a \in Addrs |-> NoVisitor]
    /\ limiterLen = [v \in VisitorIds |-> 0]
    /\ sleepers = [v \in VisitorIds |-> 0]
    /\ callerPc = [c \in Callers |-> "idle"]
    /\ callerVis = [c \in Callers |-> NoVisitor]
    /\ results = [c \in Callers |-> <<>>]
    /\ taken = [v \in VisitorIds |-> 0]

Next ==
    \/ \E ok \in BOOLEAN : CreateAsync(ok)
    \/ \E ok \in BOOLEAN : WorkerRecv(ok)
    \/ \E ok \in BOOLEAN : WorkerTick(ok)
    \/ \E ok \in BOOLEAN : WorkerStop(ok)
    \/ TimePasses
    \/ CloseSignal
    \/ CloseReturn

Spec == Init /\ [][Next]_vars

\* Normal operation: every store write succeeds and Close is not called.
NextNormal ==
    \/ CreateAsync(TRUE)
    \/ WorkerRecv(TRUE)
    \/ WorkerTick(TRUE)
    \/ TimePasses

\* The worker goroutine is scheduled, its select takes a ready case, and
\* time goes on.
SpecNormal ==
    /\ Init
    /\ [][NextNormal]_vars
    /\ WF_vars(WorkerRecv(TRUE))
    /\ WF_vars(WorkerTick(TRUE))
    /\ WF_vars(TimePasses)

\* Shutdown.  Every store write returns; the writes before the worker's
\* last flush are accepted ones, which the worker's way through its loop
\* does not depend on.  The worker's select takes each ready case sooner or
\* later (the runtime picks among the ready cases at random), and the
\* goroutine in Close is scheduled.
NextClosing ==
    \/ CreateAsync(TRUE)
    \/ WorkerRecv(TRUE)
    \/ WorkerTick(TRUE)
    \/ \E ok \in BOOLEAN : WorkerStop(ok)
    \/ TimePasses
    \/ CloseSignal
    \/ CloseReturn

SpecClosing ==
    /\ Init
    /\ [][NextClosing]_vars
    /\ WF_vars(\E ok \in BOOLEAN : WorkerStop(ok))
    /\ WF_vars(CloseReturn)

\* Producers, the worker goroutines statement by statement, and the first
\* statement of Close.
NextWorkers ==
    \/ \E ok \in BOOLEAN : CreateAsync(ok)
    \/ \E w \in StartedWorkers : WkRecv(w)
    \/ \E w \in StartedWorkers : WkTick(w)
    \/ \E w \in StartedWorkers : WkStop(w)
    \/ \E w \in StartedWorkers, ok \in BOOLEAN : WkFlushEnd(w, ok)
    \/ CloseSignal

SpecWorkers == Init /\ [][NextWorkers]_vars

\* The rate limiter with one client: callers of Allow, the release
\* goroutines, the sweeper and time.
NextLimiter ==
    \/ \E a \in OneClient : AllowLock(a)
    \/ \E a \in OneClient : AllowBody(a)
    \/ \E a \in OneClient : Release(a)
    \/ SweepLock
    \/ SweepBody
    \/ LimTime

\* Every goroutine that can run does run: the holder of the mutex goes on,
\* a release goroutine whose sleep is over takes its item, the sweeper
\* wakes up, and time goes on.
SpecLimiter ==
    /\ Init
    /\ [][NextLimiter]_vars
    /\ \A a \in Addrs : WF_vars(AllowBody(a)) /\ WF_vars(Release(a))
    /\ WF_vars(SweepLock)
    /\ WF_vars(SweepBody)
    /\ WF_vars(LimTime)

\* Requests going through the handler chain one after the other, with the
\* limiter's release goroutines, its sweeper and time.
NextChain ==
    \/ \E r \in Requests : Arrive(r)
    \/ \E code \in {200, 503} : HealthCheck(code)
    \/ \E h \in PassThrough : Through(h)
    \/ CORS
    \/ RateLimitEnter
    \/ RateLimit
    \/ RequestSizeLimit
    \/ \E outcome \in {"ok", "logs", "panic"} : Route(outcome)
    \/ LogRequest
    \/ \E a \in OneClient : Release(a)
    \/ SweepLock
    \/ SweepBody
    \/ LimTime

SpecChain == Init /\ [][NextChain]_vars

\* The filters with a time range only; those with actor and event only; and
\* those whose time bounds, if set, are the middle of the time points.
TimeFilters ==
    {f \in Filters : f.user = Nil /\ f.event = <<>> /\ f.ip = <<>> /\ f.action = <<>>}
PlainFilters ==
    {f \in Filters : f.ip = <<>> /\ f.action = <<>> /\ f.start = NoTime /\ f.end = NoTime}
FieldFilters ==
    {f \in Filters : f.start \in {NoTime, MaxTime - 1} /\ f.end \in {NoTime, MaxTime - 1}}

\* The pages and page sizes that are asked for.
Pages == {0, 1, 2}
PageSizes == {0, 1, 2, MaxPageSize, MaxPageSize + 1}

\* The log queries beside the writes that land in the collection: List with
\* every filter and the first page, List with a time range and every page,
\* SearchLogs, GetEventStats.
NextQuery ==
    \/ \E d \in DocPool : Insert(d)
    \/ \E f \in FieldFilters, ok \in BOOLEAN : List(f, 1, DefaultPageSize, ok)
    \/ \E f \in TimeFilters, pg \in Pages, sz \in PageSizes : List(f, pg, sz, TRUE)
    \/ \E t \in Patterns, f \in PlainFilters, ok \in BOOLEAN :
          SearchLogs(t, f, 1, DefaultPageSize, ok)
    \/ \E outcome \in {"ok", "find", "decode"} : FindPage(outcome)
    \/ \E u \in Users \cup {Nil}, days \in 0..MaxTime, ok \in BOOLEAN :
          GetEventStats(u, days, ok)
    \/ \E outcome \in {"ok", "decode", "next"} : StatsNext(outcome)
    \/ StatsReturn
    \/ Taken

SpecQuery == Init /\ [][NextQuery]_vars

\* Several callers in Allow at once.  The sweeper is left out: it needs a
\* visitor idle for an hour, and lastSeen is read by nothing else.
NextCallers ==
    \/ \E c \in Callers : CallEnter(c)
    \/ \E c \in Callers : CallLock(c)
    \/ \E c \in Callers : CallLookup(c)
    \/ \E c \in Callers : CallCreate(c)
    \/ \E c \in Callers : CallSelect(c)
    \/ \E v \in VisitorIds : CallRelease(v)

SpecCallers == Init /\ [][NextCallers]_vars

----------------------------------------------------------------------------
(* Properties *)

Submitted(r) == r < nextId

\* Nothing is left in the channel or in the worker's batch.
Quiescent == queue = <<>> /\ batch = <<>>

\* The step is a CreateAsync that finds logChannel open and full.
SubmitOnFull == nextId' = nextId + 1 /\ ~chanClosed /\ Len(queue) = QueueCap

\* The step is the worker's receive from logChannel.
RecvStep == queue # <<>> /\ queue' = Tail(queue)

\* The step is the worker's ticker case.
TickStep == tickPending /\ ~tickPending'

\* C1: with store writes succeeding and no Close, every submitted record
\* eventually is in the store exactly once, no record is ever there twice,
\* and once the channel and the batch are empty every submitted record is
\* there exactly once.
C1_StoredExactlyOnce ==
    /\ \A r \in Records : Submitted(r) ~> (Count(r, Store) = 1)
    /\ [](\A r \in Records : Count(r, Store) <= 1)
    /\ [](Quiescent => \A r \in Records : Submitted(r) => Count(r, Store) = 1)

C1_Witness ==
    /\ nextId > MaxRecords
    /\ Quiescent
    /\ \A r \in Records : Count(r, Store) = 1
    /\ \E i \in 1..Len(writes) : writes[i].op = "InsertMany"

\* C2: when the worker has terminated, every record that was in logChannel
\* when stopChan was closed has been handed to the store.
C2_QueuedBeforeCloseWritten ==
    wpc = "done" => queuedAtClose \subseteq Attempted

\* C3 as stated: a CreateAsync on a full channel leaves the channel as it
\* was and puts the record in the store by one InsertOne.
C3_FallbackAlwaysStores ==
    [][SubmitOnFull =>
        /\ queue' = queue
        /\ writes' = Append(writes, Write("InsertOne", "fallback", <<nextId>>, TRUE))]_vars

\* C3 amended: a CreateAsync on a full channel leaves the channel and the
\* batch as they were and makes exactly one InsertOne of the record before
\* it returns; if the store accepts that write the record is in the store
\* once.
C3_FallbackWritesOnce ==
    [][SubmitOnFull =>
        /\ queue' = queue
        /\ batch' = batch
        /\ \E ok \in BOOLEAN :
              /\ writes' = Append(writes, Write("InsertOne", "fallback", <<nextId>>, ok))
              /\ ok => Count(nextId, StoreOf(writes')) = 1]_vars

C3_Witness ==
    \E i \in 1..Len(writes) :
        /\ writes[i].op = "InsertOne"
        /\ writes[i].ok
        /\ Count(writes[i].docs[1], Store) = 1
        /\ writes[i].docs[1] \notin Range(queue) \cup Range(batch)
        /\ Len(queue) = QueueCap

\* C4: no CreateAsync ends in a panic.
C4_SubmitNeverPanics == ret # "panic"

\* The step is a CreateAsync whose fallback write the store refused.
FallbackFailed ==
    /\ SubmitOnFull
    /\ Len(writes') = Len(writes) + 1
    /\ ~writes'[Len(writes')].ok

\* C5 as stated: a CreateAsync whose fallback write fails returns nil.
C5_FallbackFailureSwallowed == [][FallbackFailed => ret' = "nil"]_vars

\* C5 amended: a CreateAsync whose fallback write fails returns the error
\* of Create to its caller, and the record is neither in the channel nor in
\* the store.
C5_FallbackFailureReturned ==
    [][FallbackFailed =>
        /\ ret' = "err"
        /\ queue' = queue
        /\ Count(nextId, StoreOf(writes')) = 0]_vars

C5_Witness ==
    /\ ret = "err"
    /\ writes # <<>>
    /\ writes[Len(writes)].op = "InsertOne"
    /\ ~writes[Len(writes)].ok

\* C6: logChannel never holds more records than its capacity.
C6_QueueBounded == Len(queue) <= QueueCap

C6_Witness ==
    /\ Len(queue) = QueueCap
    /\ \E i \in 1..Len(writes) : writes[i].by = "fallback"

\* C7: between worker steps the batch holds fewer records than the flush
\* size, and every InsertMany of the worker carries between one record and
\* the flush size.
C7_BatchBounded ==
    /\ Len(batch) <= BatchSize - 1
    /\ \A i \in 1..Len(writes) :
          writes[i].op = "InsertMany" =>
              Len(writes[i].docs) >= 1 /\ Len(writes[i].docs) <= BatchSize

C7_Witness ==
    /\ Len(batch) = BatchSize - 1
    /\ \E i \in 1..Len(writes) :
          writes[i].op = "InsertMany" /\ Len(writes[i].docs) = BatchSize

\* C8: the receive that brings the batch to the flush size writes those
\* records in one InsertMany in that same step, takes no tick, and leaves
\* the batch empty.
C8_FlushAtSize ==
    [][(RecvStep /\ Len(batch) = BatchSize - 1) =>
        /\ batch' = <<>>
        /\ tickPending' = tickPending
        /\ \E ok \in BOOLEAN :
              writes' = Append(writes,
                               Write("InsertMany", "size", Append(batch, Head(queue)), ok))]_vars

C8_Witness ==
    /\ writes # <<>>
    /\ writes[Len(writes)].by = "size"
    /\ Len(writes[Len(writes)].docs) = BatchSize
    /\ batch = <<>>
    /\ ~tickPending

\* C9: the worker's ticker case writes a non-empty batch in one InsertMany
\* and empties it, and makes no store write when the batch is empty.
C9_TickFlushes ==
    [][TickStep =>
        IF batch # <<>>
          THEN /\ batch' = <<>>
               /\ \E ok \in BOOLEAN :
                     writes' = Append(writes, Write("InsertMany", "tick", batch, ok))
          ELSE writes' = writes /\ batch' = batch]_vars

C9_Witness ==
    /\ writes # <<>>
    /\ writes[Len(writes)].by = "tick"
    /\ Len(writes[Len(writes)].docs) = 1
    /\ writes[Len(writes)].ok
    /\ batch = <<>>

\* C10: the oldest record of a non-empty batch has been in it for at most
\* one ticker period.
C10_BatchAgeBounded == batch # <<>> => batchAge <= TickPeriod

C10_Witness == batch # <<>> /\ batchAge = TickPeriod

\* The step is the worker's stop case: the goroutine returns.
StopStep == wpc = "run" /\ wpc' = "done"

\* The writes made from the worker's stop case.
StopWrites == {i \in 1..Len(writes) : writes[i].by = "stop"}

\* C11: Close has returned only if the worker has terminated; the worker's
\* stop case writes a non-empty batch in one InsertMany before Close has
\* returned, writes nothing for an empty batch, and there is at most one
\* such write.
C11_CloseAwaitsWorker ==
    /\ [](closePc = "closed" => wpc = "done" /\ batch = <<>>)
    /\ [](Cardinality(StopWrites) <= 1)
    /\ [][StopStep =>
            /\ closePc = "waiting" /\ closePc' = "waiting"
            /\ IF batch # <<>>
                 THEN \E ok \in BOOLEAN :
                        writes' = Append(writes, Write("InsertMany", "stop", batch, ok))
                 ELSE writes' = writes]_vars

C11_Witness ==
    /\ closePc = "closed"
    /\ wpc = "done"
    /\ Cardinality(StopWrites) = 1

\* How many times record r was handed to the store, over all writes.
Handed(r) ==
    Cardinality({<<i, j>> \in (1..Len(writes)) \X (1..BatchSize) :
                    j <= Len(writes[i].docs) /\ writes[i].docs[j] = r})

\* The step is a worker flush that the store refused.
FlushFailed ==
    /\ Len(writes') = Len(writes) + 1
    /\ writes'[Len(writes')].op = "InsertMany"
    /\ ~writes'[Len(writes')].ok

InOrder(s) == \A j, k \in 1..Len(s) : j < k => s[j] < s[k]

\* C14: the documents of every InsertMany, the batch and the channel are in
\* the order in which the records were enqueued.
C14_BatchKeepsOrder ==
    /\ InOrder(queue)
    /\ InOrder(batch)
    /\ \A i \in 1..Len(writes) : writes[i].op = "InsertMany" => InOrder(writes[i].docs)

C14_Witness ==
    \E i \in 1..Len(writes) :
        /\ writes[i].op = "InsertMany"
        /\ Len(writes[i].docs) = BatchSize
        /\ writes[i].ok

\* The workers that are inside processBatch.
InFlight == {w \in StartedWorkers : wkPc[w] \in Flushing}

\* C13: one worker goroutine is started per repository, at most one of the
\* started workers is inside processBatch at a time, and while a flush is
\* in flight the batch being written is not changed.
C13_SingleWorkerSingleFlush ==
    /\ [](Cardinality(DOMAIN wkPc) = 1)
    /\ [](Cardinality(InFlight) <= 1)
    /\ [][\A w \in StartedWorkers :
            (wkPc[w] \in Flushing /\ wkPc'[w] \in Flushing) =>
                wkBatch'[w] = wkBatch[w]]_vars

\* A flush is in flight while records wait in the channel.
C13_Witness ==
    /\ InFlight # {}
    /\ queue # <<>>
    /\ \E i \in 1..Len(writes) : writes[i].op = "InsertMany"

\* ---- The rate limiter ----

\* The calls of Allow(a) made so far within the present instant, and how
\* many of them returned true.
RapidCalls(a) == callsNow[a]
RapidAdmits(a) == admitsNow[a]

\* C15: when the first Allow of an instant finds no visitor for the address
\* (an address not seen before, or one the sweep has removed), the calls made
\* before any slot is returned are admitted up to Burst and rejected beyond:
\* of n <= Burst + 1 such calls, Min(n, Burst) return true.
C15_BurstAdmitted ==
    \A a \in Addrs :
        startKind[a] = "created" => RapidAdmits(a) = Min(RapidCalls(a), Burst)

\* Burst + 1 rapid calls for a new address: Burst admitted, the last rejected.
C15_Witness ==
    \E a \in Addrs :
        /\ startKind[a] = "created"
        /\ evicted[a] = "no"
        /\ RapidCalls(a) = Burst + 1
        /\ RapidAdmits(a) = Burst
        /\ tokens[a] = Burst

\* C16: a client that used up its burst and then waited until the rate
\* interval has passed since its last admission gets exactly one further
\* admission: of its next rapid calls, only the first returns true.
C16_OnePerInterval ==
    \A a \in Addrs :
        startKind[a] = "waited" => RapidAdmits(a) = Min(RapidCalls(a), 1)

\* A release goroutine of address a takes its item out of the channel.
ReleaseStep(a) ==
    /\ tokens'[a] = tokens[a] - 1
    /\ lockHolder' = lockHolder

\* A release goroutine of address a has slept its time.
Due(a) == IF timers[a] = <<>> THEN FALSE ELSE Head(timers[a]) = 0

\* C17: every slot consumed by an admission has exactly one release
\* goroutine, which takes exactly one item back and not before the rate
\* interval has passed since the admission; a release whose sleep is over
\* finds an item to take, so it does not block; and unless the client keeps
\* calling, its channel is in the end empty again and stays so (all Burst
\* slots are free).
C17_SlotsReturned ==
    /\ [](\A a \in Addrs :
            /\ tokens[a] <= Burst
            /\ Len(timers[a]) = tokens[a]
            /\ Len(held[a]) = tokens[a])
    /\ [](\A a \in Addrs : Due(a) => ENABLED Release(a))
    /\ [][\A a \in Addrs :
            ReleaseStep(a) =>
                /\ Head(held[a]) >= RateInterval
                /\ Len(timers'[a]) = Len(timers[a]) - 1
                /\ tokens'[a] = Len(timers'[a])]_vars
    /\ \A a \in Addrs : ([]<>(lockHolder = a)) \/ <>[](tokens[a] = 0)

\* A client took its whole burst and every slot of it has come back.
C17_Witness ==
    \E a \in Addrs :
        /\ present[a]
        /\ bursted[a]
        /\ tokens[a] = 0
        /\ timers[a] = <<>>

\* The call of Allow(a) that holds the mutex returns.
AllowReturns(a) ==
    /\ lockHolder = a
    /\ lockHolder' = "free"

\* C18: a call of Allow that holds the mutex can always go on to its return,
\* whatever the channel holds, and so can the sweeper; a call that finds the
\* channel full returns false in the same step, leaving the channel and the
\* pending releases as they were (nothing waits for a slot); some goroutine
\* can always take a step; and every call that has the mutex returns.
C18_AllowNeverWaits ==
    /\ [](\A a \in Addrs : lockHolder = a => ENABLED AllowBody(a))
    /\ [](lockHolder = "sweeper" => ENABLED SweepBody)
    /\ [](ENABLED NextLimiter)
    /\ [][\A a \in Addrs :
            (AllowReturns(a) /\ present[a] /\ tokens[a] = Burst) =>
                /\ admitsNow'[a] = admitsNow[a]
                /\ callsNow'[a] = callsNow[a] + 1
                /\ tokens'[a] = tokens[a]
                /\ timers'[a] = timers[a]]_vars
    /\ \A a \in Addrs : (lockHolder = a) ~> (lockHolder = "free")

\* A call for a client that already had a visitor was rejected and has
\* returned, while releases of that client are still pending.
C18_Witness ==
    \E a \in Addrs :
        /\ startKind[a] = "other"
        /\ callsNow[a] > admitsNow[a]
        /\ tokens[a] = Burst
        /\ lockHolder = "free"

\* C19 as stated: an address has a visitor in the map only while it was last
\* seen at most IdleLimit (one hour) ago.
C19_SeenWithinHour ==
    \A a \in Addrs : present[a] => seenAge[a] <= IdleLimit

\* C19, amended: an address has a visitor in the map only while it was last
\* seen at most IdleLimit plus one SweepPeriod ago; a visitor older than
\* IdleLimit stays until the sweeper's next round.
C19_SeenWithinHourAndSweep ==
    \A a \in Addrs : present[a] => seenAge[a] <= IdleLimit + SweepPeriod

\* A visitor that is in the map a whole sweep period after its hour ended.
C19_Witness ==
    \E a \in Addrs :
        /\ present[a]
        /\ seenAge[a] = IdleLimit + SweepPeriod
        /\ sweepIn = 0

\* The sweeper finishes a round over the map.
SweepStep ==
    /\ lockHolder = "sweeper"
    /\ lockHolder' = "free"

\* C20: a round of the sweeper removes every visitor last seen more than
\* IdleLimit ago, and such a visitor does not stay for ever (it is removed,
\* or seen again); a call of Allow for an address without a visitor creates
\* one whose channel holds just this call's item, whatever the removed
\* visitor's channel held, and is admitted; so the rapid calls after a
\* removal are admitted up to Burst.
C20_EvictedThenFresh ==
    /\ [][SweepStep =>
            \A a \in Addrs :
                (present[a] /\ seenAge[a] > IdleLimit) => ~present'[a]]_vars
    /\ \A a \in Addrs :
        (present[a] /\ seenAge[a] > IdleLimit)
            ~> (~present[a] \/ seenAge[a] <= IdleLimit)
    /\ [][\A a \in Addrs :
            (AllowReturns(a) /\ ~present[a]) =>
                /\ present'[a]
                /\ seenAge'[a] = 0
                /\ tokens'[a] = 1
                /\ timers'[a] = <<RateInterval>>
                /\ admitsNow'[a] = admitsNow[a] + 1]_vars
    /\ [](\A a \in Addrs :
            (evicted[a] # "no" /\ startKind[a] = "created") =>
                admitsNow[a] = Min(callsNow[a], Burst))

\* A visitor was removed while slots of it were consumed, and the address
\* then got Burst admissions out of Burst + 1 rapid calls.
C20_Witness ==
    \E a \in Addrs :
        /\ evicted[a] = "used"
        /\ startKind[a] = "created"
        /\ callsNow[a] = Burst + 1
        /\ admitsNow[a] = Burst
        /\ present[a]

\* C33: every call of Allow sets the visitor's lastSeen to the present,
\* also a call that is rejected; a visitor leaves the map only when it was
\* last seen more than IdleLimit ago, so a client that calls before that
\* age is reached is never removed; and a round of the sweeper leaves a
\* visitor seen at most IdleLimit ago in the map with its channel and its
\* release goroutines as they were.
C33_SeenKeepsVisitor ==
    /\ [][\A a \in Addrs :
            AllowReturns(a) => (present'[a] /\ seenAge'[a] = 0)]_vars
    /\ [][\A a \in Addrs :
            (present[a] /\ ~present'[a]) => seenAge[a] > IdleLimit]_vars
    /\ [][SweepStep =>
            \A a \in Addrs :
                (present[a] /\ seenAge[a] <= IdleLimit) =>
                    /\ present'[a]
                    /\ tokens'[a] = tokens[a]
                    /\ timers'[a] = timers[a]
                    /\ seenAge'[a] = seenAge[a]]_vars

\* Every call of this instant was rejected, the channel being full of items
\* of earlier instants, and the visitor's lastSeen is the present.
C33_Witness ==
    \E a \in Addrs :
        /\ present[a]
        /\ callsNow[a] > 0
        /\ admitsNow[a] = 0
        /\ tokens[a] = Burst
        /\ \A i \in 1..Len(held[a]) : held[a][i] >= 1
        /\ seenAge[a] = 0
        /\ lockHolder = "free"

\* The sweeper has just finished a round, and a visitor seen IdleLimit ago,
\* never removed, is still in the map with a consumed slot.
C33_WitnessSweep ==
    \E a \in Addrs :
        /\ present[a]
        /\ evicted[a] = "no"
        /\ seenAge[a] = IdleLimit
        /\ tokens[a] > 0
        /\ sweepIn = SweepPeriod
        /\ lockHolder = "free"

\* ---- The log pipeline, further claims ----

\* C34: each submitted record is in at most one of the channel, the
\* worker's batch and the store, and at most once there, whatever flushes
\* were refused, whichever records went the fallback way and whether the
\* worker has stopped; no document is handed to the store in two writes.
C34_NoRecordTwice ==
    /\ \A r \in Records :
          Count(r, queue) + Count(r, batch) + Count(r, Store) <= 1
    /\ \A r \in Records : ~Submitted(r) => Count(r, queue) + Count(r, batch) = 0
    /\ \A i, j \in 1..Len(writes) :
          i # j => Range(writes[i].docs) \cap Range(writes[j].docs) = {}

\* The worker has stopped after a refused flush, an accepted flush and an
\* accepted fallback write, and a record is left in the channel.
C34_Witness ==
    /\ wpc = "done"
    /\ queue # <<>>
    /\ \E i \in 1..Len(writes) : writes[i].op = "InsertMany" /\ ~writes[i].ok
    /\ \E i \in 1..Len(writes) : writes[i].op = "InsertMany" /\ writes[i].ok
    /\ \E i \in 1..Len(writes) : writes[i].by = "fallback" /\ writes[i].ok

\* C35: once Close has closed stopChan, the worker ends and Close returns,
\* whatever the producers do and whatever logChannel holds.
C35_CloseTerminates ==
    closePc = "waiting" ~> (wpc = "done" /\ closePc = "closed")

\* Close has returned with the channel full; its oldest record was in it
\* when Close began, so the channel was never empty in between, and a
\* record was submitted while Close was under way.
C35_Witness ==
    /\ closePc = "closed"
    /\ wpc = "done"
    /\ Len(queue) = QueueCap
    /\ Head(queue) \in queuedAtClose
    /\ Range(queue) \ queuedAtClose # {}

\* Record r was written by an accepted fallback write.
ByFallback(r) ==
    \E k \in 1..Len(writes) :
        writes[k].by = "fallback" /\ writes[k].ok /\ writes[k].docs = <<r>>

\* C36: records are numbered in the order of their submission.  A record
\* submitted while the channel is full, its fallback write accepted, is the
\* latest arrival in the store at once, while the records in the channel
\* and in the batch, all submitted before it, are not in the store yet; and
\* when a record is in the store ahead of one submitted before it, it came
\* by the fallback.
C36_FallbackOvertakes ==
    /\ [][(SubmitOnFull /\ ret' = "nil") =>
            /\ StoreOf(writes') = Append(Store, nextId)
            /\ queue' = queue /\ batch' = batch
            /\ \A r \in Range(queue) \cup Range(batch) :
                  r < nextId /\ Count(r, StoreOf(writes')) = 0]_vars
    /\ [](\A i, j \in 1..Len(Store) :
            (i < j /\ Store[i] > Store[j]) => ByFallback(Store[i]))

\* The store holds a record ahead of a record that was submitted before it.
C36_Witness ==
    \E i, j \in 1..Len(Store) :
        /\ i < j
        /\ Store[i] > Store[j]
        /\ ~ByFallback(Store[j])

\* ---- The handler chain ----

\* The handlers installed after handler h.
LaterThan(h) ==
    LET i == CHOOSE k \in 1..Len(Chain) : Chain[k] = h
    IN  {Chain[k] : k \in (i + 1)..Len(Chain)}

\* RateLimitMiddleware gets Allow's answer for the request.
Answered(ans) == asked = "no" /\ asked' = ans

\* C21: a request for which Allow returned false has the status 429, its
\* chain is over and no handler installed after the limiter has acted on it;
\* 429 is written for no other request; and when Allow returns true the
\* request goes to the next handler with no response written by the limiter.
C21_RejectedAborted ==
    /\ [](asked = "false" =>
            /\ status = 429
            /\ pos = ChainEnd
            /\ ran \cap LaterThan("RateLimit") = {})
    /\ [](status = 429 => asked = "false")
    /\ [][Answered("true") =>
            /\ pos' = pos + 1
            /\ Chain[pos'] \in LaterThan("RateLimit")
            /\ status' = status]_vars
    /\ [][Answered("false") => status' = 429 /\ pos' = ChainEnd]_vars

\* A request was rejected by the limiter after the handlers installed before
\* it had acted.
C21_Witness ==
    /\ asked = "false"
    /\ status = 429
    /\ ran = {"HealthCheck", "SecurityHeaders", "CORS", "RateLimit"}

\* C22 as stated: until Allow has been consulted for a request, no handler
\* has acted on it and no response has been written for it.
C22_AllowFirst ==
    asked = "no" => (ran = {} /\ status = 0)

\* The handlers installed before the rate limiter.
BeforeLimiter == {"HealthCheck", "SecurityHeaders", "CORS"}

\* C22, amended: the handlers installed after the limiter act on a request
\* only once Allow has admitted it; before Allow is consulted only the
\* health check, the security headers and CORS act, and the only responses
\* written without Allow are the health check's (200, 503, for GET /health)
\* and CORS's (204 for a preflight, 403 for an origin that is not allowed).
C22_AllowBeforeLaterHandlers ==
    /\ ran \cap LaterThan("RateLimit") # {} => asked = "true"
    /\ asked = "no" =>
        /\ ran \subseteq BeforeLimiter
        /\ status \in {0, 200, 503, 204, 403}
        /\ status \in {200, 503} => req.health
        /\ status = 204 => req.cors = "preflight"
        /\ status = 403 => req.cors = "foreign"

\* GET /health was answered without Allow being consulted.
C22_Witness ==
    /\ req.health
    /\ status = 200
    /\ asked = "no"
    /\ pos = ChainEnd

\* ---- The limiter's bound ----

\* C30: for every address the number of consumed slots that have not been
\* returned is between 0 and Burst in every state, and the admissions of an
\* address within any window shorter than the rate interval are at most
\* Burst.
C30_AtMostBurstPerWindow ==
    \A a \in Addrs :
        /\ tokens[a] \in 0..Burst
        /\ Len(recent[a]) <= Burst

\* A client has Burst admissions inside one window, made at different
\* instants, and a call of it has been rejected.
C30_Witness ==
    \E a \in Addrs :
        /\ tokens[a] = Burst
        /\ Len(recent[a]) = Burst
        /\ recent[a][1] > 0
        /\ callsNow[a] > admitsNow[a]

\* The request has been answered by the limiter or has passed it, and every
\* handler has returned.
Finished == pos = ChainEnd /\ logged # "pending" /\ asked # "no"

\* C37 (as stated): CreateAsync is called once for a request the limiter
\* admitted and not at all for a request it rejected.
C37_OncePerAdmitted ==
    Finished => submits = (IF asked = "true" THEN 1 ELSE 0)

\* C37 (amended): for a request the limiter rejected, RequestLoggingMiddleware
\* does not run and CreateAsync is not called; RequestLoggingMiddleware calls
\* CreateAsync for admitted requests only, and for a finished admitted
\* request it has called it, once, exactly when the request was within the
\* size limit and no handler panicked; with the calls of RecoveryMiddleware
\* and of the route's handler an admitted request has 0, 1 or 2 calls.
C37_RejectedNotLogged ==
    /\ asked = "false" =>
          /\ submits = 0
          /\ logged = "no"
          /\ "RequestLogging" \notin ran
    /\ logged \in {"yes", "skipped"} => asked = "true"
    /\ (Finished /\ asked = "true") =>
          /\ logged = "yes" <=> (~req.large /\ status # 500)
          /\ req.large => submits = 0
          /\ submits \in {0, 1, 2}
          /\ logged = "yes" => submits >= 1

\* The limiter has rejected a request: it is answered 429, no handler is
\* left to run and nothing was submitted.
C37_Witness ==
    /\ asked = "false"
    /\ status = 429
    /\ pos = ChainEnd
    /\ submits = 0
    /\ ran = {"HealthCheck", "SecurityHeaders", "CORS", "RateLimit"}

\* An admitted request has finished with two submissions.
C37_WitnessTwo == Finished /\ asked = "true" /\ submits = 2

\* ---------------------------------------------------------------------
\* Claims about the queries on the log collection
\* ---------------------------------------------------------------------

\* List has returned without an error.
Listed == qpc = "returned" /\ qop.kind = "List" /\ qres.err = "none"

\* The documents of the collection with their ids in S.
IdsOf(D) == {d.id : d \in D}

\* C23 (as stated): the predicate of List is the conjunction of exactly the
\* supplied fields: the record is of the actor whose id is given, has the
\* event kind given, has the given action as a substring (case ignored) and
\* lies within the time bounds given; an absent field does not constrain.
C23_ConjunctionOfSupplied ==
    Listed =>
        qres.matched =
            IdsOf({d \in coll :
                /\ qop.filter.user # Nil => d.user = UserIDString(qop.filter.user)
                /\ qop.filter.event # <<>> => d.event = qop.filter.event
                /\ qop.filter.action # <<>> => Substring(qop.filter.action, d.action)
                /\ TimeHolds(qop.filter.start, qop.filter.end, d.ts)})

\* C23, the actor id alone: a List for an actor selects the actor's records.
C23_ActorSelected ==
    (Listed /\ qop.filter = [NoCall.filter EXCEPT !.user = "u1"]) =>
        qres.matched = IdsOf({d \in coll : d.user = UserIDString("u1")})

\* The document with id i.
DocOf(i) == CHOOSE d \in DocPool : d.id = i

\* The documents of the collection inside the time range of the call.
InRange == {d \in coll : qop.filter.start # NoTime => d.ts >= qop.filter.start}
           \cap {d \in coll : qop.filter.end # NoTime => d.ts <= qop.filter.end}

\* C24: List with a time range returns only records with t1 <= timestamp
\* <= t2, latest first, and exactly the records at positions
\* (page-1)*pageSize .. page*pageSize-1 (counted from 0) of the records in
\* the range sorted by timestamp descending: the page has as many records
\* as that part of the sequence, no record twice, and the record at
\* position p has at most p records before it that are later and at least
\* p + 1 records that are not earlier.
C24_RangeSortedPage ==
    (Listed /\ qop.filter \in TimeFilters) =>
        LET skip == (qres.page - 1) * qres.pageSize
            n == Cardinality(InRange)
            len == IF n <= skip THEN 0 ELSE Min(qres.pageSize, n - skip)
        IN  /\ \A j \in 1..Len(qres.logs) : DocOf(qres.logs[j]) \in InRange
            /\ \A j, k \in 1..Len(qres.logs) :
                  j < k => /\ DocOf(qres.logs[j]).ts >= DocOf(qres.logs[k]).ts
                           /\ qres.logs[j] # qres.logs[k]
            /\ Len(qres.logs) = len
            /\ \A j \in 1..Len(qres.logs) :
                  LET t == DocOf(qres.logs[j]).ts
                  IN  /\ Cardinality({d \in InRange : d.ts > t}) <= skip + j - 1
                      /\ Cardinality({d \in InRange : d.ts >= t}) >= skip + j

\* A List with both bounds set has returned a second page that starts with
\* a record stamped t1, while the collection holds a record stamped t2 and
\* a record outside the range.
C24_Witness ==
    /\ Listed
    /\ qop.filter \in TimeFilters
    /\ qop.filter.start # NoTime
    /\ qop.filter.end # NoTime
    /\ qres.page = 2
    /\ qres.logs # <<>>
    /\ DocOf(qres.logs[1]).ts = qop.filter.start
    /\ \E d \in coll : d.ts = qop.filter.end /\ d.ts # qop.filter.start
    /\ coll \ InRange # {}

\* C25: whatever page and page size are requested, the values List uses
\* and returns satisfy page >= 1 and 1 <= pageSize <= 100, and totalPages
\* is the least number of pages of that size that hold total records.
C25_PagingBounds ==
    (qop.kind = "List" /\ qres.err \in {"pending", "none"}) =>
        /\ qop.page >= 1
        /\ qop.pageSize >= 1 /\ qop.pageSize <= MaxPageSize
        /\ Listed =>
              /\ qres.page = qop.page /\ qres.pageSize = qop.pageSize
              /\ qres.totalPages * qres.pageSize >= qres.total
              /\ (qres.totalPages - 1) * qres.pageSize < qres.total

\* A List asked for page 0 with a page size over the maximum has returned a
\* total that is not 0.
C25_Witness ==
    /\ Listed
    /\ qop.reqPage = 0
    /\ qop.reqPageSize > MaxPageSize
    /\ qres.total > 0

\* SearchLogs has returned without an error.
Searched == qpc = "returned" /\ qop.kind = "SearchLogs" /\ qres.err = "none"

Counted(e) ==
    {d \in coll :
        /\ d.event = e
        /\ d.ts >= Now - qop.days
        /\ qop.user # Nil => d.user = UserIDString(qop.user)}

\* C27: the map of GetEventStats has a key only for an event kind with at
\* least one record in the trailing window (of the given actor, when one is
\* given), one value per key, every value at least 1 and at most the
\* number of such records; an actor without a record in the window gets an
\* empty map.
C27_OnlyOccurringKinds ==
    qop.kind = "GetEventStats" =>
        /\ \A g \in qres.stats :
              /\ g[2] >= 1
              /\ g[2] <= Cardinality(Counted(g[1]))
              /\ \A h \in qres.stats : h[1] = g[1] => h = g
        /\ (qop.user # Nil /\ \A e \in Events : Counted(e) = {}) => qres.stats = {}

\* GetEventStats without an actor has returned a map that is not empty
\* and has no key for a kind whose records are all older than the window.
C27_Witness ==
    /\ qpc = "returned"
    /\ qop.kind = "GetEventStats"
    /\ qop.user = Nil
    /\ qres.err = "none"
    /\ ~qres.failed
    /\ qres.stats # {}
    /\ \E d \in coll :
          /\ d.ts < Now - qop.days
          /\ \A g \in qres.stats : g[1] # d.event

\* GetEventStats for an actor whose records are all older than the window
\* has returned an empty map.
C27_WitnessActor ==
    /\ qpc = "returned"
    /\ qop.kind = "GetEventStats"
    /\ qop.user # Nil
    /\ qres.err = "none"
    /\ qres.stats = {}
    /\ \E d \in coll : d.user = UserIDString(qop.user) /\ d.ts < Now - qop.days
    /\ \A d \in coll : d.user = UserIDString(qop.user) => d.ts < Now - qop.days

\* C28 (as stated): when the store has failed during List or GetEventStats,
\* at the count, at the query or while the results were read, the call
\* returns an error.
C28_FailureReturned ==
    (qpc = "returned" /\ qop.kind \in {"List", "GetEventStats"} /\ qres.failed) =>
        qres.err # "none"

\* C28, List alone: a failed count, Find or cursor.All is returned as an
\* error, without records.
C28_ListFailureReturned ==
    (qpc = "returned" /\ qop.kind = "List" /\ qres.failed) =>
        qres.err # "none" /\ qres.logs = <<>>

\* C29: List makes two reads with the same predicate and nothing holds the
\* collection still between them: the total is the number of records that
\* the predicate selects when the count is made, the page is read from the
\* records that it selects when Find is made, and the total returned is
\* still that of the count.
C29_TwoReads ==
    [][/\ (qpc = "idle" /\ qpc' = "counted" /\ qop'.kind = "List") =>
             qres'.total =
                 Cardinality({d \in coll : Holds(buildLogFilter(qop'.filter), d)})
       /\ (qpc = "counted" /\ qop.kind = "List" /\ qres'.err = "none") =>
             /\ qres'.total = qres.total
             /\ qres'.matched =
                    IdsOf({d \in coll : Holds(buildLogFilter(qop.filter), d)})
             /\ \A j \in 1..Len(qres'.logs) : qres'.logs[j] \in qres'.matched]_vars

\* List has returned a total that is not the number of records its page
\* read selected: a write has landed between the two reads.
C29_Witness ==
    /\ Listed
    /\ qres.total # Cardinality(qres.matched)
    /\ Len(qres.logs) > qres.total

\* ---------------------------------------------------------------------
\* Claims about concurrent callers of Allow
\* ---------------------------------------------------------------------

\* The callers that are between Lock and Unlock.
Inside == {c \in Callers : callerPc[c] \in {"lookup", "create", "select"}}

\* C31: concurrent calls of Allow are serialized by the mutex: at most one
\* caller is between Lock and Unlock; the callers of one address all use the
\* one Visitor that is in the map for it, so every admitted call's item is
\* in that Visitor's channel until a release goroutine takes it out; and the
\* channel never holds more than Burst items, so of the calls made while k
\* slots remain at most k are admitted, plus one per item taken out.
C31_CallsSerialized ==
    /\ Cardinality(Inside) <= 1
    /\ \A c \in Inside : mutex = c
    /\ \A c \in Callers :
          callerPc[c] = "select" => callerVis[c] = visitors[CallerIP(c)]
    /\ \A v \in VisitorIds :
          (limiterLen[v] > 0 \/ taken[v] > 0) => visitors[CallerIP(v[1])] = v
    /\ \A a \in Addrs :
          IF visitors[a] = NoVisitor THEN Admitted(a) = 0
          ELSE /\ Admitted(a) = limiterLen[visitors[a]] + taken[visitors[a]]
               /\ limiterLen[visitors[a]] <= Burst

\* Two callers of one address are in their first calls at once, the address
\* not seen before: one has made the Visitor and is at the select, the other
\* waits at Lock.
C31_Witness ==
    \E c, d \in Callers :
        /\ c # d
        /\ CallerIP(c) = CallerIP(d)
        /\ callerPc[c] = "select"
        /\ callerPc[d] = "lock"
        /\ \A e \in Callers : CallerIP(e) = CallerIP(c) => results[e] = <<>>
        /\ visitors[CallerIP(c)] = <<c, 1>>

\* Both callers of one address have made all their calls with no item taken
\* out meanwhile: Burst of the calls were admitted, the others rejected.
C31_WitnessRejected ==
    \E c, d \in Callers :
        /\ c # d
        /\ CallerIP(c) = CallerIP(d)
        /\ Len(results[c]) = MaxCalls
        /\ Len(results[d]) = MaxCalls
        /\ Admitted(CallerIP(c)) = Burst
        /\ taken[visitors[CallerIP(c)]] = 0

\* The Visitor of address b and what it holds.
BudgetOf(b) == <<visitors[b], limiterLen[visitors[b]], sleepers[visitors[b]]>>
BudgetOfNext(b) == <<visitors'[b], limiterLen'[visitors'[b]], sleepers'[visitors'[b]]>>

\* C32: a step of a call of Allow(a) leaves the Visitor of every other
\* address, what it holds and the results of the other addresses' callers as
\* they are; and what a call returns is decided by the channel of its own
\* address's Visitor alone: true exactly when that channel had room.
C32_OwnBudgetOnly ==
    [][\A c \in Callers :
          callerPc'[c] # callerPc[c] =>
              /\ \A b \in Addrs \ {CallerIP(c)} :
                    visitors[b] # NoVisitor => BudgetOfNext(b) = BudgetOf(b)
              /\ \A b \in Addrs \ {CallerIP(c)} :
                    visitors[b] = NoVisitor => visitors'[b] = NoVisitor
              /\ \A d \in Callers \ {c} : results'[d] = results[d]
              /\ callerPc[c] = "select" =>
                    results'[c] =
                        Append(results[c], limiterLen[visitors[CallerIP(c)]] < Burst)]_vars

\* One address has used up its burst and has had a call rejected, and the
\* caller of the other address has had all its calls admitted.
C32_Witness ==
    /\ \E c \in Callers :
          /\ CallerIP(c) = "a1"
          /\ \E i \in 1..Len(results[c]) : ~results[c][i]
    /\ limiterLen[visitors["a1"]] = Burst
    /\ Len(results["c3"]) = MaxCalls
    /\ \A i \in 1..Len(results["c3"]) : results["c3"][i]

====
